---- MODULE Spec2Model ----
(***************************************************************************)
(* The docker image cache of api/agent/drivers/docker/imageCache.go.       *)
(*                                                                         *)
(* Two specifications share the state of one Cache value:                  *)
(*                                                                         *)
(*   Spec      the field layer.  Every method is one atomic step whose     *)
(*             effect on cache/totalSize is the effect of its body, the    *)
(*             calls it makes included, with the mutex c.mu left out:      *)
(*             every c.mu.Lock() is taken to succeed.  It says what the    *)
(*             methods do to the fields, not whether a call returns.       *)
(*             The reclaim pass of the eviction driver runs as a sequence  *)
(*             of steps interleaved with the workers' calls.               *)
(*                                                                         *)
(*   LockSpec  the lock layer.  Worker goroutines call the methods; each   *)
(*             call is a frame on the goroutine's stack that acquires      *)
(*             c.mu, runs its body and releases c.mu in its deferred       *)
(*             Unlock.  sync.Mutex is not reentrant, so Add, which calls   *)
(*             c.Contains with c.mu held, never gets past that call.       *)
(*                                                                         *)
(* Time is a coarse clock `now`.  Within one call the clock advances by    *)
(* less than a tick between two reads of time.Now(): that can decide a     *)
(* comparison of two equal scores, and nothing else.                       *)
(***************************************************************************)
EXTENDS Integers, Sequences, FiniteSets, TLC

\* ---------------------------------------------------------------- bounds
NumIds == 2
MaxSize == 1
MaxClock == 1
MaxUses == 2
MaxTotal == 3
MaxCapacity == 1
NumThreads == 2

Ids == 1..NumIds
Sizes == 0..MaxSize
Capacities == (-1)..MaxCapacity
Threads == 1..NumThreads

VARIABLES
    cache,      \* c.cache: the slice of entries, in slice order
    totalSize,  \* c.totalSize
    maxSize,    \* c.maxSize
    capacity,   \* the argument NewCache was called with
    now,        \* the clock read by time.Now()
    held,       \* ids for which Lock returned nil, with no Unlock/Remove call since
    resident,   \* ids held, in the order their entries were created
    ret,        \* the last call that returned: [op, id, val]
    panicked,   \* a runtime panic has ended the process
    rpc,        \* position of the reclaim pass
    cand,       \* the candidate the reclaim pass selected (0: none)
    removals,   \* removal-action invocations of the current pass
    mu,         \* c.mu: 0 when unlocked, else the goroutine that locked it
    stack       \* per goroutine: the frames of its calls in progress

dataVars == <<cache, totalSize, maxSize, capacity, now, held, resident, ret, panicked>>
reclaimVars == <<rpc, cand, removals>>
lockVars == <<mu, stack>>
vars == <<dataVars, reclaimVars, lockVars>>

\* ------------------------------------------------------------- entries
NewEntry(id, size, t) ==
    [id |-> id, size |-> size, lastUsed |-> t, locked |-> FALSE, uses |-> 0]

\* Entry.Score divides by e.uses: an integer division by zero panics.
ScorePanics(e) == e.uses = 0

Score(e, t) == (t - e.lastUsed) \div e.uses

Less(a, b, t) == Score(a, t) < Score(b, t)

NewCache(arg) == [cache |-> <<>>, totalSize |-> 0, maxSize |-> 0]

\* ----------------------------------------------------- scans of c.cache
RECURSIVE IndexFrom(_, _, _)
IndexFrom(c, id, i) ==
    IF i > Len(c) THEN 0
    ELSE IF c[i].id = id THEN i
    ELSE IndexFrom(c, id, i + 1)

\* The index of the first entry with this id; 0 when the range loop ends.
IndexOf(c, id) == IndexFrom(c, id, 1)

Contains(c, id) == IndexOf(c, id) # 0

\* Mark that updates the range loop's copy of the entry, not c.cache[idx].
MarkOnCopy(c, id, t) ==
    IF IndexOf(c, id) = 0 THEN [cache |-> c, err |-> "notfound"]
    ELSE [cache |-> c, err |-> "nil"]

Mark(c, id, t) ==
    LET idx == IndexOf(c, id) IN
    IF idx = 0 THEN [cache |-> c, err |-> "notfound"]
    ELSE [cache |-> [c EXCEPT ![idx].lastUsed = t, ![idx].uses = c[idx].uses + 1],
          err |-> "nil"]

\* Remove that shortens the list without moving the last item first.
RemoveTruncates(c, id) ==
    IF IndexOf(c, id) = 0 THEN [cache |-> c, err |-> "notfound"]
    ELSE [cache |-> SubSeq(c, 1, Len(c) - 1), err |-> "nil"]

Remove(c, id) ==
    LET idx == IndexOf(c, id) IN
    IF idx = 0 THEN [cache |-> c, err |-> "notfound"]
    ELSE [cache |-> SubSeq([c EXCEPT ![idx] = c[Len(c)]], 1, Len(c) - 1),
          err |-> "nil"]

\* Lock that returns nil whether or not the identity is found.
LockAlwaysNil(c, id) == [cache |-> c, err |-> "nil"]

\* `i.locked = true` assigns to the range loop's copy of the entry.
Lock(c, id) ==
    IF IndexOf(c, id) = 0 THEN [cache |-> c, err |-> "notfound"]
    ELSE [cache |-> c, err |-> "nil"]

Locked(c, id) ==
    LET idx == IndexOf(c, id) IN
    IF idx = 0 THEN [val |-> FALSE, err |-> "notfound"]
    ELSE [val |-> c[idx].locked, err |-> "nil"]

\* `i.locked = false` assigns to the range loop's copy of the entry.
Unlock(c, id) == c

\* Add without the Contains test: every call appends and counts the size.
AddAlwaysAppends(c, total, id, size, t) ==
    [cache |-> Append(c, NewEntry(id, size, t)), totalSize |-> total + size]

Add(c, total, id, size, t) ==
    IF Contains(c, id)
    THEN [cache |-> Mark(c, id, t).cache, totalSize |-> total]
    ELSE [cache |-> Append(c, NewEntry(id, size, t)), totalSize |-> total + size]

TotalSize(total) == total

\* The comparison the other way round.
OverFilledAbove(total, max) == total > max

OverFilled(total, max) == total < max

CacheLen(c) == Len(c)

\* ------------------------------------------------------------ Evictable
RECURSIVE Unlocked(_)
Unlocked(c) ==
    IF c = <<>> THEN <<>>
    ELSE IF c[1].locked = FALSE THEN <<c[1]>> \o Unlocked(Tail(c))
    ELSE Unlocked(Tail(c))

\* sort.Sort on fewer than 7 elements is insertionSort: element i moves
\* towards the front while Less(j, j-1).
RECURSIVE Insert(_, _, _)
Insert(sorted, e, t) ==
    IF sorted = <<>> THEN <<e>>
    ELSE LET n == Len(sorted) IN
         IF Less(e, sorted[n], t)
         THEN Append(Insert(SubSeq(sorted, 1, n - 1), e, t), sorted[n])
         ELSE Append(sorted, e)

RECURSIVE insertionSort(_, _)
insertionSort(s, t) ==
    IF Len(s) <= 1 THEN s
    ELSE Insert(insertionSort(SubSeq(s, 1, Len(s) - 1), t), s[Len(s)], t)

\* With two or more elements every element is an argument of some Less call.
SortPanics(s) == Len(s) >= 2 /\ \E i \in 1..Len(s) : ScorePanics(s[i])

Evictable(c, t) ==
    LET ea == Unlocked(c) IN
    IF SortPanics(ea) THEN [panic |-> TRUE, ea |-> <<>>]
    ELSE [panic |-> FALSE, ea |-> insertionSort(ea, t)]

\* Less(i, j) calls a[i].Score() and then a[j].Score(); each reads
\* time.Now(), the second not earlier than the first.  Of two scores that
\* are equal at one instant the second may so come out larger.
MayBeLess(a, b, t) == Score(a, t) <= Score(b, t)

MayBeNotLess(a, b, t) == Score(a, t) >= Score(b, t)

RECURSIVE InsertOutcomes(_, _, _)
InsertOutcomes(sorted, e, t) ==
    IF sorted = <<>> THEN {<<e>>}
    ELSE LET n == Len(sorted) IN
         (IF MayBeLess(e, sorted[n], t)
          THEN {Append(x, sorted[n]) : x \in InsertOutcomes(SubSeq(sorted, 1, n - 1), e, t)}
          ELSE {})
         \cup
         (IF MayBeNotLess(e, sorted[n], t) THEN {Append(sorted, e)} ELSE {})

RECURSIVE SortOutcomes(_, _)
SortOutcomes(s, t) ==
    IF Len(s) <= 1 THEN {s}
    ELSE UNION {InsertOutcomes(x, s[Len(s)], t) :
                   x \in SortOutcomes(SubSeq(s, 1, Len(s) - 1), t)}

\* Every slice a call of Evictable can return (none when it panics);
\* Evictable(c, t).ea is the one where no clock advance decides a comparison.
EvictableOutcomes(c, t) ==
    IF SortPanics(Unlocked(c)) THEN {} ELSE SortOutcomes(Unlocked(c), t)

IdsOf(s) == [i \in 1..Len(s) |-> s[i].id]

Without(s, x) == SelectSeq(s, LAMBDA y : y # x)

\* ------------------------------------------------------- return values
Ret(op, id, err, b, n, s) ==
    [op |-> op, id |-> id, err |-> err, bool |-> b, num |-> n, ids |-> s]

NoRet == Ret("none", 0, "nil", FALSE, 0, <<>>)

Init ==
    /\ capacity \in Capacities
    /\ cache = NewCache(capacity).cache
    /\ totalSize = NewCache(capacity).totalSize
    /\ maxSize = NewCache(capacity).maxSize
    /\ now = 0
    /\ held = {}
    /\ resident = <<>>
    /\ ret = NoRet
    /\ panicked = FALSE
    /\ rpc = "idle"
    /\ cand = 0
    /\ removals = 0
    /\ mu = 0
    /\ stack = [t \in Threads |-> <<>>]

\* ------------------------------------------- field layer: worker calls
DoContains(id) ==
    /\ ~panicked
    /\ ret' = Ret("Contains", id, "nil", Contains(cache, id), 0, <<>>)
    /\ UNCHANGED <<cache, totalSize, maxSize, capacity, now, held, resident, panicked>>
    /\ UNCHANGED <<reclaimVars, lockVars>>

DoMark(id) ==
    /\ ~panicked
    /\ Contains(cache, id) => cache[IndexOf(cache, id)].uses < MaxUses
    /\ cache' = Mark(cache, id, now).cache
    /\ ret' = Ret("Mark", id, Mark(cache, id, now).err, FALSE, 0, <<>>)
    /\ UNCHANGED <<totalSize, maxSize, capacity, now, held, resident, panicked>>
    /\ UNCHANGED <<reclaimVars, lockVars>>

DoRemove(id) ==
    /\ ~panicked
    /\ cache' = Remove(cache, id).cache
    /\ held' = held \ {id}
    /\ resident' = Without(resident, id)
    /\ ret' = Ret("Remove", id, Remove(cache, id).err, FALSE, 0, <<>>)
    /\ UNCHANGED <<totalSize, maxSize, capacity, now, panicked>>
    /\ UNCHANGED <<reclaimVars, lockVars>>

DoLock(id) ==
    /\ ~panicked
    /\ cache' = Lock(cache, id).cache
    /\ held' = IF Lock(cache, id).err = "nil" THEN held \cup {id} ELSE held
    /\ UNCHANGED resident
    /\ ret' = Ret("Lock", id, Lock(cache, id).err, FALSE, 0, <<>>)
    /\ UNCHANGED <<totalSize, maxSize, capacity, now, panicked>>
    /\ UNCHANGED <<reclaimVars, lockVars>>

DoLocked(id) ==
    /\ ~panicked
    /\ ret' = Ret("Locked", id, Locked(cache, id).err, Locked(cache, id).val, 0, <<>>)
    /\ UNCHANGED <<cache, totalSize, maxSize, capacity, now, held, resident, panicked>>
    /\ UNCHANGED <<reclaimVars, lockVars>>

DoUnlock(id) ==
    /\ ~panicked
    /\ cache' = Unlock(cache, id)
    /\ held' = held \ {id}
    /\ UNCHANGED resident
    /\ ret' = Ret("Unlock", id, "nil", FALSE, 0, <<>>)
    /\ UNCHANGED <<totalSize, maxSize, capacity, now, panicked>>
    /\ UNCHANGED <<reclaimVars, lockVars>>

DoAdd(id, size) ==
    /\ ~panicked
    /\ IF Contains(cache, id)
       THEN cache[IndexOf(cache, id)].uses < MaxUses
       ELSE totalSize + size <= MaxTotal
    /\ cache' = Add(cache, totalSize, id, size, now).cache
    /\ totalSize' = Add(cache, totalSize, id, size, now).totalSize
    /\ ret' = Ret("Add", id, "nil", FALSE, size, <<>>)
    /\ resident' = IF Contains(cache, id) THEN resident ELSE Append(resident, id)
    /\ UNCHANGED <<maxSize, capacity, now, held, panicked>>
    /\ UNCHANGED <<reclaimVars, lockVars>>

DoTotalSize ==
    /\ ~panicked
    /\ ret' = Ret("TotalSize", 0, "nil", FALSE, TotalSize(totalSize), <<>>)
    /\ UNCHANGED <<cache, totalSize, maxSize, capacity, now, held, resident, panicked>>
    /\ UNCHANGED <<reclaimVars, lockVars>>

DoOverFilled ==
    /\ ~panicked
    /\ ret' = Ret("OverFilled", 0, "nil", OverFilled(totalSize, maxSize), 0, <<>>)
    /\ UNCHANGED <<cache, totalSize, maxSize, capacity, now, held, resident, panicked>>
    /\ UNCHANGED <<reclaimVars, lockVars>>

DoLen ==
    /\ ~panicked
    /\ ret' = Ret("Len", 0, "nil", FALSE, CacheLen(cache), <<>>)
    /\ UNCHANGED <<cache, totalSize, maxSize, capacity, now, held, resident, panicked>>
    /\ UNCHANGED <<reclaimVars, lockVars>>

DoEvictable ==
    /\ ~panicked
    /\ panicked' = Evictable(cache, now).panic
    /\ IF Evictable(cache, now).panic
       THEN ret' = Ret("Evictable", 0, "panic", FALSE, 0, <<>>)
       ELSE \E ea \in EvictableOutcomes(cache, now) :
               ret' = Ret("Evictable", 0, "nil", FALSE, 0, IdsOf(ea))
    /\ UNCHANGED <<cache, totalSize, maxSize, capacity, now, held, resident>>
    /\ UNCHANGED <<reclaimVars, lockVars>>

Tick ==
    /\ ~panicked
    /\ now < MaxClock
    /\ now' = now + 1
    /\ UNCHANGED <<cache, totalSize, maxSize, capacity, held, resident, ret, panicked>>
    /\ UNCHANGED <<reclaimVars, lockVars>>

\* ------------------------------------- field layer: the eviction driver
\* One pass of Reclaim(store, removalAction), in steps:
\*   idle      the pass is called and tests its loop condition
\*   check     the loop condition is tested again after an eviction
\*   removing  removalAction(cand) is running, outside the store
\*   finalize  removalAction succeeded; store.Remove(cand) is due
\*   done      the pass has returned; ret holds what it reported
ReclaimTest ==
    IF ~OverFilled(totalSize, maxSize)
    THEN /\ rpc' = "done"
         /\ cand' = 0
         /\ ret' = Ret("Reclaim", 0, "nil", FALSE, removals, <<>>)
         /\ UNCHANGED <<panicked, removals>>
    ELSE IF Evictable(cache, now).panic
    THEN /\ panicked' = TRUE
         /\ UNCHANGED <<rpc, cand, removals, ret>>
    ELSE IF Evictable(cache, now).ea = <<>>
    THEN /\ rpc' = "done"
         /\ cand' = 0
         /\ ret' = Ret("Reclaim", 0, "CapacityUnavailable", FALSE, removals, <<>>)
         /\ UNCHANGED <<panicked, removals>>
    ELSE /\ rpc' = "removing"
         /\ cand' \in {ea[1].id : ea \in EvictableOutcomes(cache, now)}
         /\ removals' = removals + 1
         /\ UNCHANGED <<panicked, ret>>

ReclaimStep ==
    /\ ~panicked
    /\ CASE rpc = "idle" ->
              /\ removals = 0
              /\ ReclaimTest
              /\ UNCHANGED <<cache, held, resident>>
         [] rpc = "check" ->
              /\ ReclaimTest
              /\ UNCHANGED <<cache, held, resident>>
         [] rpc = "removing" ->
              \E ok \in BOOLEAN :
                 /\ IF ok
                    THEN /\ rpc' = "finalize"
                         /\ UNCHANGED <<ret, cand>>
                    ELSE /\ rpc' = "done"
                         /\ ret' = Ret("Reclaim", cand, "RemovalFailed", FALSE, removals, <<>>)
                         /\ UNCHANGED cand
                 /\ UNCHANGED <<cache, held, resident, panicked, removals>>
         [] rpc = "finalize" ->
              /\ cache' = Remove(cache, cand).cache
              /\ held' = held \ {cand}
              /\ resident' = Without(resident, cand)
              /\ rpc' = "check"
              /\ UNCHANGED <<ret, cand, panicked, removals>>
         [] rpc = "done" ->
              /\ rpc' = "idle"
              /\ cand' = 0
              /\ removals' = 0
              /\ UNCHANGED <<cache, held, resident, ret, panicked>>
    /\ UNCHANGED <<totalSize, maxSize, capacity, now>>
    /\ UNCHANGED lockVars

Next ==
    \/ \E id \in Ids : DoContains(id)
    \/ \E id \in Ids : DoMark(id)
    \/ \E id \in Ids : DoRemove(id)
    \/ \E id \in Ids : DoLock(id)
    \/ \E id \in Ids : DoLocked(id)
    \/ \E id \in Ids : DoUnlock(id)
    \/ \E id \in Ids, size \in Sizes : DoAdd(id, size)
    \/ DoTotalSize
    \/ DoOverFilled
    \/ DoLen
    \/ DoEvictable
    \/ Tick
    \/ ReclaimStep

Spec == Init /\ [][Next]_vars

\* ---------------------------------------------- lock layer: goroutines
\* A frame is one call in progress: pc is "lock" (at c.mu.Lock()), "body"
\* (past it), "afterContains"/"afterMark" (Add, after the call it made
\* returned), "unlock" (the deferred c.mu.Unlock() is due) or "return"
\* (a method that never took the mutex returns).  rv/rerr/rnum/rids hold
\* what the call, or the call it made last, returned.
Frame(op, id, size, pc) ==
    [op |-> op, id |-> id, size |-> size, pc |-> pc,
     rv |-> FALSE, rerr |-> "nil", rnum |-> 0, rids |-> <<>>]

Top(t) == stack[t][Len(stack[t])]

SetTop(t, f) == [stack EXCEPT ![t][Len(stack[t])] = f]

Push(t, f) == [stack EXCEPT ![t] = Append(@, f)]

KeyedOps == {"Contains", "Mark", "Remove", "Lock", "Locked", "Unlock"}
PlainOps == {"TotalSize", "OverFilled", "Len", "Evictable"}

\* Evictable is the one method that does not start with c.mu.Lock().
EntryPc(op) == IF op = "Evictable" THEN "body" ELSE "lock"

Call(t, op, id, size) ==
    /\ ~panicked
    /\ stack[t] = <<>>
    /\ stack' = Push(t, Frame(op, id, size, EntryPc(op)))
    /\ UNCHANGED <<mu, dataVars, reclaimVars>>

\* c.mu.Lock(): blocks until the mutex is unlocked, whoever locked it.
Acquire(t) ==
    /\ ~panicked
    /\ stack[t] # <<>>
    /\ Top(t).pc = "lock"
    /\ mu = 0
    /\ mu' = t
    /\ stack' = SetTop(t, [Top(t) EXCEPT !.pc = "body"])
    /\ UNCHANGED <<dataVars, reclaimVars>>

Body(t) ==
    /\ ~panicked
    /\ stack[t] # <<>>
    /\ Top(t).pc \in {"body", "afterContains", "afterMark"}
    /\ LET f == Top(t) IN
       CASE f.op = "Contains" ->
              /\ stack' = SetTop(t, [f EXCEPT !.pc = "unlock", !.rv = Contains(cache, f.id)])
              /\ UNCHANGED <<cache, totalSize, held, resident, panicked>>
         [] f.op = "Mark" ->
              /\ cache' = Mark(cache, f.id, now).cache
              /\ stack' = SetTop(t, [f EXCEPT !.pc = "unlock", !.rerr = Mark(cache, f.id, now).err])
              /\ UNCHANGED <<totalSize, held, resident, panicked>>
         [] f.op = "Remove" ->
              /\ cache' = Remove(cache, f.id).cache
              /\ held' = held \ {f.id}
              /\ resident' = Without(resident, f.id)
              /\ stack' = SetTop(t, [f EXCEPT !.pc = "unlock", !.rerr = Remove(cache, f.id).err])
              /\ UNCHANGED <<totalSize, panicked>>
         [] f.op = "Lock" ->
              /\ cache' = Lock(cache, f.id).cache
              /\ held' = IF Lock(cache, f.id).err = "nil" THEN held \cup {f.id} ELSE held
              /\ UNCHANGED resident
              /\ stack' = SetTop(t, [f EXCEPT !.pc = "unlock", !.rerr = Lock(cache, f.id).err])
              /\ UNCHANGED <<totalSize, panicked>>
         [] f.op = "Locked" ->
              /\ stack' = SetTop(t, [f EXCEPT !.pc = "unlock",
                                              !.rv = Locked(cache, f.id).val,
                                              !.rerr = Locked(cache, f.id).err])
              /\ UNCHANGED <<cache, totalSize, held, resident, panicked>>
         [] f.op = "Unlock" ->
              /\ cache' = Unlock(cache, f.id)
              /\ held' = held \ {f.id}
              /\ UNCHANGED resident
              /\ stack' = SetTop(t, [f EXCEPT !.pc = "unlock"])
              /\ UNCHANGED <<totalSize, panicked>>
         [] f.op = "Add" /\ f.pc = "body" ->
              \* line 134: c.Contains(value), called with c.mu held
              /\ stack' = [stack EXCEPT ![t] =
                             Append(SubSeq(@, 1, Len(@) - 1),
                                    [f EXCEPT !.pc = "afterContains"])
                             \o <<Frame("Contains", f.id, 0, "lock")>>]
              /\ UNCHANGED <<cache, totalSize, held, resident, panicked>>
         [] f.op = "Add" /\ f.pc = "afterContains" ->
              IF f.rv
              THEN \* line 135: c.Mark(value.ID)
                   /\ stack' = [stack EXCEPT ![t] =
                                  Append(SubSeq(@, 1, Len(@) - 1),
                                         [f EXCEPT !.pc = "afterMark"])
                                  \o <<Frame("Mark", f.id, 0, "lock")>>]
                   /\ UNCHANGED <<cache, totalSize, held, resident, panicked>>
              ELSE \* lines 138-139
                   /\ cache' = Append(cache, NewEntry(f.id, f.size, now))
                   /\ totalSize' = totalSize + f.size
                   /\ stack' = SetTop(t, [f EXCEPT !.pc = "unlock"])
                   /\ resident' = Append(resident, f.id)
                   /\ UNCHANGED <<held, panicked>>
         [] f.op = "Add" /\ f.pc = "afterMark" ->
              /\ stack' = SetTop(t, [f EXCEPT !.pc = "unlock", !.rerr = "nil"])
              /\ UNCHANGED <<cache, totalSize, held, resident, panicked>>
         [] f.op = "TotalSize" ->
              /\ stack' = SetTop(t, [f EXCEPT !.pc = "unlock",
                                              !.rnum = TotalSize(totalSize)])
              /\ UNCHANGED <<cache, totalSize, held, resident, panicked>>
         [] f.op = "OverFilled" ->
              /\ stack' = SetTop(t, [f EXCEPT !.pc = "unlock",
                                              !.rv = OverFilled(totalSize, maxSize)])
              /\ UNCHANGED <<cache, totalSize, held, resident, panicked>>
         [] f.op = "Len" ->
              /\ stack' = SetTop(t, [f EXCEPT !.pc = "unlock",
                                              !.rnum = CacheLen(cache)])
              /\ UNCHANGED <<cache, totalSize, held, resident, panicked>>
         [] f.op = "Evictable" ->
              /\ panicked' = Evictable(cache, now).panic
              /\ IF Evictable(cache, now).panic
                 THEN stack' = SetTop(t, [f EXCEPT !.pc = "return", !.rerr = "panic"])
                 ELSE \E ea \in EvictableOutcomes(cache, now) :
                         stack' = SetTop(t, [f EXCEPT !.pc = "return", !.rids = IdsOf(ea)])
              /\ UNCHANGED <<cache, totalSize, held, resident>>
    /\ UNCHANGED <<mu, maxSize, capacity, now, ret, reclaimVars>>

\* What the outermost call hands back to the worker.
RetOf(f) ==
    Ret(f.op, f.id, f.rerr, f.rv, IF f.op = "Add" THEN f.size ELSE f.rnum, f.rids)

\* The deferred c.mu.Unlock() runs as the call returns; unlocking a mutex
\* that is not locked is a fatal runtime error.
Return(t) ==
    /\ ~panicked
    /\ stack[t] # <<>>
    /\ Top(t).pc \in {"unlock", "return"}
    /\ LET f == Top(t)
           rest == SubSeq(stack[t], 1, Len(stack[t]) - 1)
       IN  IF f.pc = "unlock" /\ mu = 0
           THEN /\ panicked' = TRUE
                /\ UNCHANGED <<mu, stack, ret>>
           ELSE /\ mu' = IF f.pc = "unlock" THEN 0 ELSE mu
                /\ panicked' = panicked
                /\ IF rest = <<>>
                   THEN /\ stack' = [stack EXCEPT ![t] = <<>>]
                        /\ ret' = RetOf(f)
                   ELSE /\ stack' = [stack EXCEPT ![t] =
                                       Append(SubSeq(rest, 1, Len(rest) - 1),
                                              [rest[Len(rest)] EXCEPT !.rv = f.rv,
                                                                      !.rerr = f.rerr])]
                        /\ ret' = ret
    /\ UNCHANGED <<cache, totalSize, maxSize, capacity, now, held, resident, reclaimVars>>

LockNext ==
    \/ \E t \in Threads, op \in KeyedOps, id \in Ids : Call(t, op, id, 0)
    \/ \E t \in Threads, id \in Ids, size \in Sizes : Call(t, "Add", id, size)
    \/ \E t \in Threads, op \in PlainOps : Call(t, op, 0, 0)
    \/ \E t \in Threads : Acquire(t)
    \/ \E t \in Threads : Body(t)
    \/ \E t \in Threads : Return(t)
    \/ Tick

LockSpec == Init /\ [][LockNext]_vars

\* ------------------------------------------------------------ claims
RECURSIVE SumSizes(_)
SumSizes(c) == IF c = <<>> THEN 0 ELSE c[1].size + SumSizes(Tail(c))

EntryOf(c, id) == c[IndexOf(c, id)]

InSeq(x, s) == \E i \in 1..Len(s) : s[i] = x

PosOf(x, s) == CHOOSE i \in 1..Len(s) : s[i] = x

\* C1: after any sequence of operations, TotalSize() equals the sum of the
\* sizes of exactly the entries currently held.
C1_TotalSizeIsSum == TotalSize(totalSize) = SumSizes(cache)

\* C2: no pinned entry appears in Evictable(): neither an entry whose
\* locked flag is set, nor a present identity for which Lock has returned
\* success with no Unlock or Remove call since.
C2_PinnedNotEvictable ==
    ~Evictable(cache, now).panic =>
        LET ea == Evictable(cache, now).ea IN
        /\ \A i \in 1..Len(ea) : ea[i].locked = FALSE
        /\ \A id \in held : Contains(cache, id) => ~InSeq(id, IdsOf(ea))

Progress == \E t \in Threads : Acquire(t) \/ Body(t) \/ Return(t)

\* C4: every public operation eventually returns with the mutex released.
\* In finite form: while some call is in progress, some call in progress
\* can take a step.
C4_CallsCanProceed ==
    (~panicked /\ \E t \in Threads : stack[t] # <<>>) => ENABLED Progress

C7_UsesAtLeastOne ==
    \A i \in 1..Len(cache) : cache[i].uses >= 1 /\ ~ScorePanics(cache[i])

\* C8: for a present identity Locked(id) is true exactly when Lock(id) has
\* returned success with no Unlock/Remove since; Lock and Locked on an
\* absent identity return the not-found error.
C8_LockSetsPinned ==
    \A id \in Ids :
        IF Contains(cache, id)
        THEN /\ Locked(cache, id).err = "nil"
             /\ Locked(cache, id).val = (id \in held)
        ELSE /\ Locked(cache, id).err = "notfound"
             /\ Lock(cache, id).err = "notfound"

\* C9: of two unpinned entries with the same, positive, time since last use
\* and different scores, the one with fewer uses comes earlier in
\* Evictable().
C9_FewerUsesFirst ==
    ~Evictable(cache, now).panic =>
        LET ids == IdsOf(Evictable(cache, now).ea) IN
        \A a, b \in Ids :
            (/\ InSeq(a, ids) /\ InSeq(b, ids)
             /\ EntryOf(cache, a).lastUsed = EntryOf(cache, b).lastUsed
             /\ now > EntryOf(cache, a).lastUsed
             /\ EntryOf(cache, a).uses < EntryOf(cache, b).uses
             /\ Score(EntryOf(cache, a), now) # Score(EntryOf(cache, b), now))
            => PosOf(a, ids) < PosOf(b, ids)

\* C10: for a cache constructed with a positive capacity, the over-capacity
\* query is true if and only if TotalSize() exceeds that capacity.
C10_OverCapacityIffAbove ==
    capacity > 0 =>
        (OverFilled(totalSize, maxSize) <=> (TotalSize(totalSize) > capacity))

\* C11: a cache constructed with maxSize <= 0 is never reported over
\* capacity, whatever was added, and no step of a reclaim pass on it removes
\* an entry or invokes the removal action.
C11_NonPositiveIsUnbounded ==
    [][capacity <= 0 =>
          /\ ~OverFilled(totalSize, maxSize)
          /\ ~OverFilled(totalSize', maxSize')
          /\ rpc' # rpc => (cache' = cache /\ removals' = 0 /\ rpc' \in {"idle", "done"})]_vars

\* C11 witness: capacity <= 0, two entries of positive total size are held,
\* and a reclaim pass has returned.
C11_Witness ==
    /\ capacity <= 0
    /\ rpc = "done"
    /\ ret.op = "Reclaim"
    /\ ret.err = "nil"
    /\ Len(cache) = 2
    /\ SumSizes(cache) = 2
    /\ totalSize = 2

\* C12: the cache holds at most one entry per identity; Contains(id) is true
\* exactly when that entry exists; Len() is the number of distinct
\* identities held.
C12_OneEntryPerIdentity ==
    /\ \A i, j \in 1..Len(cache) : cache[i].id = cache[j].id => i = j
    /\ \A id \in Ids : Contains(cache, id) <=> (\E i \in 1..Len(cache) : cache[i].id = id)
    /\ CacheLen(cache) = Cardinality({cache[i].id : i \in 1..Len(cache)})

\* C12 witness: the last call was an Add of an identity that was already
\* present, and both identities are held.
C12_Witness ==
    /\ ret.op = "Add"
    /\ Contains(cache, ret.id)
    /\ EntryOf(cache, ret.id).uses = 2
    /\ Len(cache) = 2

\* C13: Mark(id) on a present identity raises its use count by one and sets
\* its last-used time to the current time, not earlier than before; it
\* leaves TotalSize(), Len(), the entry's pinned flag and every other entry
\* unchanged.  On an absent identity it returns not-found and changes nothing.
C13_MarkEffect ==
    [][\A id \in Ids :
         (ret'.op = "Mark" /\ ret'.id = id /\ DoMark(id)) =>
            IF Contains(cache, id)
            THEN LET idx == IndexOf(cache, id) IN
                 /\ ret'.err = "nil"
                 /\ Len(cache') = Len(cache)
                 /\ cache'[idx].uses = cache[idx].uses + 1
                 /\ cache'[idx].lastUsed >= cache[idx].lastUsed
                 /\ cache'[idx].lastUsed = now
                 /\ cache'[idx].locked = cache[idx].locked
                 /\ cache'[idx].id = id
                 /\ cache'[idx].size = cache[idx].size
                 /\ \A j \in 1..Len(cache) : j # idx => cache'[j] = cache[j]
                 /\ totalSize' = totalSize
            ELSE /\ ret'.err = "notfound"
                 /\ cache' = cache
                 /\ totalSize' = totalSize]_vars

\* C13 witness: a Mark succeeded on an entry created at an earlier time,
\* with another entry held.
C13_Witness ==
    /\ ret.op = "Mark"
    /\ ret.err = "nil"
    /\ Len(cache) = 2
    /\ EntryOf(cache, ret.id).uses = 2
    /\ EntryOf(cache, ret.id).lastUsed = 1
    /\ \E i \in 1..2 : cache[i].id # ret.id /\ cache[i].lastUsed = 0

\* C14: Remove(id) on a present identity, pinned or not, deletes exactly that
\* entry: Contains(id) is false afterwards, Len() is one less, every other
\* entry is still held, unchanged.  On an absent identity it returns
\* not-found and leaves the entry list and TotalSize() unchanged.
C14_RemoveEffect ==
    [][\A id \in Ids :
         (ret'.op = "Remove" /\ ret'.id = id /\ DoRemove(id)) =>
            IF Contains(cache, id)
            THEN /\ ret'.err = "nil"
                 /\ ~Contains(cache', id)
                 /\ Len(cache') = Len(cache) - 1
                 /\ \A o \in Ids \ {id} :
                       Contains(cache, o) =>
                          /\ Contains(cache', o)
                          /\ EntryOf(cache', o) = EntryOf(cache, o)
            ELSE /\ ret'.err = "notfound"
                 /\ cache' = cache
                 /\ totalSize' = totalSize]_vars

\* C14 witness: a Remove succeeded and the other entry is still held.
C14_Witness ==
    /\ ret.op = "Remove"
    /\ ret.err = "nil"
    /\ ~Contains(cache, ret.id)
    /\ Len(cache) = 1
    /\ cache[1].uses = 1

\* C17: when no removal action fails, a reclaim pass ends either with the
\* store not over the capacity it was constructed with, or with the store
\* still over it, every remaining entry pinned, and this reported.
C17_ReclaimOutcome ==
    (rpc = "done" /\ ret.op = "Reclaim" /\ ret.err # "RemovalFailed" /\ capacity > 0) =>
        \/ ret.err = "nil" /\ TotalSize(totalSize) <= capacity
        \/ /\ ret.err = "CapacityUnavailable"
           /\ TotalSize(totalSize) > capacity
           /\ Unlocked(cache) = <<>>

\* C18: Unlock on an absent identity returns normally and changes neither
\* the entry list nor TotalSize(); Mark, Lock, Locked and Remove on an
\* absent identity return not-found and change neither.
C18_AbsentIdentity ==
    [][\A id \in Ids :
         (ret'.id = id /\ ~Contains(cache, id)) =>
            /\ DoUnlock(id) => (ret'.err = "nil" /\ cache' = cache /\ totalSize' = totalSize)
            /\ (DoMark(id) \/ DoLock(id) \/ DoLocked(id) \/ DoRemove(id)) =>
                  (ret'.err = "notfound" /\ cache' = cache /\ totalSize' = totalSize)]_vars

\* C18 witness: Unlock has returned for an identity that is not held, with
\* another identity held.
C18_Witness ==
    /\ ret.op = "Unlock"
    /\ ret.err = "nil"
    /\ ~Contains(cache, ret.id)
    /\ Len(cache) = 1

\* C19: every read and write of the entry list and of totalSize happens
\* with the mutex held by the goroutine that does it: a call that is past
\* its entry and about to run its body has locked c.mu.
C19_FieldsUnderMutex ==
    \A t \in Threads :
        (stack[t] # <<>> /\ Top(t).pc \in {"body", "afterContains", "afterMark"}) =>
            mu = t

\* C20: Evictable() is deterministic on equal scores: in whatever it
\* returns, of two entries with equal score the one resident longest comes
\* first.
C20_TiesByResidency ==
    /\ Cardinality(EvictableOutcomes(cache, now)) <= 1
    /\ \A ea \in EvictableOutcomes(cache, now) :
          \A i, j \in 1..Len(ea) :
             (i < j /\ Score(ea[i], now) = Score(ea[j], now)) =>
                PosOf(ea[i].id, resident) < PosOf(ea[j].id, resident)

====
